---------------------------- MODULE Spec2Model ----------------------------
(***************************************************************************)
(* The run-completion coordination of the engine controller                *)
(* (packages/server/api/src/app/workers/engine-controller.ts).             *)
(*                                                                         *)
(* A worker reports the outcome of a run with POST /update-run.  The       *)
(* handler is an async function: every `await` is a point where another    *)
(* request handler may run, so each awaited call is one step of a call.    *)
(* The collaborators the handler awaits (the flow-run service, the engine  *)
(* response watcher, the queue consumer, the outbound callback) are        *)
(* modelled by what they do to the shared state, and each of them that can *)
(* reject may do so.                                                       *)
(* POST /update-job, the queue update a worker sends by itself, is the     *)
(* second sender of queue updates.                                         *)
(***************************************************************************)
EXTENDS Integers, Sequences, FiniteSets, TLC

\* ------------------------------------------------------------- bounds

\* How many update-run handlers may be suspended at an await at once.
MaxConcurrent == 2
\* The largest executionStateContentLength a report carries.
MaxContentLength == 1
\* The response log of one waiter is not grown past this length.
MaxDeliveries == 2

\* ---------------------------------------------------------- constants

NULL == "null"

\* FlowRunStatus
QUEUED == "QUEUED"
RUNNING == "RUNNING"
SUCCEEDED == "SUCCEEDED"
FAILED == "FAILED"
PAUSED == "PAUSED"
TIMEOUT == "TIMEOUT"
INTERNAL_ERROR == "INTERNAL_ERROR"
QUOTA_EXCEEDED == "QUOTA_EXCEEDED"
MEMORY_LIMIT_EXCEEDED == "MEMORY_LIMIT_EXCEEDED"

FlowRunStatus ==
    { QUEUED, RUNNING, SUCCEEDED, FAILED, PAUSED, TIMEOUT, INTERNAL_ERROR,
      QUOTA_EXCEEDED, MEMORY_LIMIT_EXCEEDED }

\* Terminal: every status except QUEUED, RUNNING, PAUSED.
isFlowRunStateTerminal(status) == status \notin { QUEUED, RUNNING, PAUSED }

\* The failure statuses a synchronous response is mapped for.
FailureStatuses ==
    { FAILED, TIMEOUT, INTERNAL_ERROR, QUOTA_EXCEEDED, MEMORY_LIMIT_EXCEEDED }

\* StatusCodes (http-status-codes)
INTERNAL_SERVER_ERROR == 500
GATEWAY_TIMEOUT == 504
NO_CONTENT == 204
OK == 200

\* JobStatus
JOB_COMPLETED == "COMPLETED"
JOB_FAILED == "FAILED"

isNil(x) == x = NULL

\* The run the workers report on, and the run it may be a sub-run of.
ChildRun == "run1"
ParentRun == "parent1"

RequestIds == { "r1" }
HandlerIds == { "h1" }
WaiterKeys == RequestIds \X HandlerIds

\* An object with no fields (an absent pauseMetadata spreads to nothing).
EmptyObject == [f \in {} |-> NULL]

WebhookPause == [type |-> "WEBHOOK", requestId |-> "r9"]
DelayPause == [type |-> "DELAY"]


\* ------------------------------------------------- the handler's functions

\* Mutant of nonSupportedStatuses: PAUSED left out of the list.
nonSupportedStatusesWithoutPaused == { RUNNING, SUCCEEDED }

\* const nonSupportedStatuses = [RUNNING, SUCCEEDED, PAUSED]
nonSupportedStatuses == { RUNNING, SUCCEEDED, PAUSED }

\* The condition under which update-run publishes a synchronous response.
shouldPublish(body) ==
    /\ body.status \notin nonSupportedStatuses
    /\ ~isNil(body.workerHandlerId)
    /\ ~isNil(body.httpRequestId)

Response(status, message) ==
    [throws |-> FALSE, status |-> status, message |-> message]

\* Mutant of getFlowResponse: TIMEOUT answered like a failed flow.
getFlowResponseTimeoutAsFailure(status) ==
    CASE status = INTERNAL_ERROR ->
           Response(INTERNAL_SERVER_ERROR, "An internal error has occurred")
      [] status \in { FAILED, MEMORY_LIMIT_EXCEEDED, TIMEOUT } ->
           Response(INTERNAL_SERVER_ERROR,
                    "The flow has failed and there is no response returned")
      [] status = QUOTA_EXCEEDED ->
           Response(NO_CONTENT, "")
      [] OTHER ->
           [throws |-> TRUE, status |-> 0,
            message |-> "Unexpected flow run status"]

\* Mutant of getFlowResponse: the default case answers instead of throwing.
getFlowResponseDefaultAnswers(status) ==
    CASE status = INTERNAL_ERROR ->
           Response(INTERNAL_SERVER_ERROR, "An internal error has occurred")
      [] status \in { FAILED, MEMORY_LIMIT_EXCEEDED } ->
           Response(INTERNAL_SERVER_ERROR,
                    "The flow has failed and there is no response returned")
      [] status = TIMEOUT ->
           Response(GATEWAY_TIMEOUT, "The request took too long to reply")
      [] status = QUOTA_EXCEEDED ->
           Response(NO_CONTENT, "")
      [] OTHER ->
           Response(INTERNAL_SERVER_ERROR, "Unexpected flow run status")

\* getFlowResponse: the response owed for a run status; the default case
\* throws.
getFlowResponse(status) ==
    CASE status = INTERNAL_ERROR ->
           Response(INTERNAL_SERVER_ERROR, "An internal error has occurred")
      [] status \in { FAILED, MEMORY_LIMIT_EXCEEDED } ->
           Response(INTERNAL_SERVER_ERROR,
                    "The flow has failed and there is no response returned")
      [] status = TIMEOUT ->
           Response(GATEWAY_TIMEOUT, "The request took too long to reply")
      [] status = QUOTA_EXCEEDED ->
           Response(NO_CONTENT, "")
      [] OTHER ->
           [throws |-> TRUE, status |-> 0,
            message |-> "Unexpected flow run status"]

\* JSON.stringify of the reported error: a string is quoted, and an absent
\* error prints as undefined inside the template string.
JSONstringify(error) ==
    IF isNil(error) THEN << "undefined" >> ELSE << "\"", error, "\"" >>

QueueUpdate(jobId, status, token, message) ==
    [jobId |-> jobId, queueName |-> "ONE_TIME", status |-> status,
     token |-> token, message |-> message]

\* Mutant of markJobAsCompleted: INTERNAL_ERROR listed with the completed
\* statuses.
markJobAsCompletedAlways(status, jobId, enginePrincipal, error) ==
    CASE status \in { FAILED, TIMEOUT, PAUSED, QUOTA_EXCEEDED,
                      MEMORY_LIMIT_EXCEEDED, SUCCEEDED, INTERNAL_ERROR } ->
           << QueueUpdate(jobId, JOB_COMPLETED, enginePrincipal.queueToken,
                          << "Flow succeeded" >>) >>
      [] OTHER ->
           << >>

\* Mutant of markJobAsCompleted: TIMEOUT left out of the completed statuses.
markJobAsCompletedSkipsTimeout(status, jobId, enginePrincipal, error) ==
    CASE status \in { FAILED, PAUSED, QUOTA_EXCEEDED, MEMORY_LIMIT_EXCEEDED,
                      SUCCEEDED } ->
           << QueueUpdate(jobId, JOB_COMPLETED, enginePrincipal.queueToken,
                          << "Flow succeeded" >>) >>
      [] status = INTERNAL_ERROR ->
           << QueueUpdate(jobId, JOB_FAILED, enginePrincipal.queueToken,
                          << "Internal error reported by engine: " >>
                              \o JSONstringify(error)) >>
      [] OTHER ->
           << >>

\* markJobAsCompleted: the queue updates (none or one) sent for a run status.
markJobAsCompleted(status, jobId, enginePrincipal, error) ==
    CASE status \in { FAILED, TIMEOUT, PAUSED, QUOTA_EXCEEDED,
                      MEMORY_LIMIT_EXCEEDED, SUCCEEDED } ->
           << QueueUpdate(jobId, JOB_COMPLETED, enginePrincipal.queueToken,
                          << "Flow succeeded" >>) >>
      [] status \in { QUEUED, RUNNING } ->
           << >>
      [] status = INTERNAL_ERROR ->
           << QueueUpdate(jobId, JOB_FAILED, enginePrincipal.queueToken,
                          << "Internal error reported by engine: " >>
                              \o JSONstringify(error)) >>
      [] OTHER ->
           << >>

\* Mutant of shouldMarkParentAsFailed: the flag is not looked at.
shouldMarkParentAsFailedIgnoringFlag(run) ==
    /\ ~isNil(run.parentRunId)
    /\ run.status \notin { SUCCEEDED, RUNNING, PAUSED, QUEUED }

\* Mutant of shouldMarkParentAsFailed: QUEUED left out of the list.
shouldMarkParentAsFailedWhenQueued(run) ==
    /\ run.failParentOnFailure
    /\ ~isNil(run.parentRunId)
    /\ run.status \notin { SUCCEEDED, RUNNING, PAUSED }

\* const shouldMarkParentAsFailed = ...
shouldMarkParentAsFailed(run) ==
    /\ run.failParentOnFailure
    /\ ~isNil(run.parentRunId)
    /\ run.status \notin { SUCCEEDED, RUNNING, PAUSED, QUEUED }

\* Mutant of updateLogs: a length of 0 counts.
updateLogsWhenPresent(executionStateContentLength) ==
    executionStateContentLength # {}

\* const updateLogs = !isNil(length) && length > 0; an optional number is a
\* set holding at most one number.
updateLogs(executionStateContentLength) ==
    /\ executionStateContentLength # {}
    /\ \A n \in executionStateContentLength : n > 0

\* Mutant of Spread: a's value where both have the field.
SpreadFirstWins(a, b) ==
    [f \in DOMAIN a \cup DOMAIN b |-> IF f \in DOMAIN a THEN a[f] ELSE b[f]]

\* { ...a, ...b }: the fields of both, b's value where both have the field.
Spread(a, b) ==
    [f \in DOMAIN a \cup DOMAIN b |-> IF f \in DOMAIN b THEN b[f] ELSE a[f]]

\* The pause metadata update-run hands to flowRunService.pause.
pauseMetadataOf(body, progressUpdateType) ==
    Spread([progressUpdateType |-> progressUpdateType,
            handlerId |-> body.workerHandlerId],
           body.pauseMetadata)

\* request.body.progressUpdateType ?? ProgressUpdateType.NONE
progressUpdateTypeOf(body) ==
    IF isNil(body.progressUpdateType) THEN "NONE" ELSE body.progressUpdateType

\* markParentRunAsFailed: the requestId of the parent's webhook pause.
parentRequestId(flowRun) ==
    IF /\ "type" \in DOMAIN flowRun.pauseMetadata
       /\ flowRun.pauseMetadata.type = "WEBHOOK"
       /\ "requestId" \in DOMAIN flowRun.pauseMetadata
    THEN flowRun.pauseMetadata.requestId
    ELSE NULL

\* Mutant of assertNotNullOrUndefined: nothing is asserted.
assertNothing(value) == TRUE

\* assertNotNullOrUndefined(value, name): passes when the value is there,
\* throws otherwise.
assertNotNullOrUndefined(value) == ~isNil(value)

\* --------------------------------------------------- the collaborators

\* Mutant of updateRun: the status is persisted whatever the run's status.
updateRunUnconditionally(store, flowRunId, status) ==
    [store EXCEPT ![flowRunId].status = status]

\* flowRunService.updateRun: the status is persisted unless the run is
\* already terminal.  The accounting fields (tasks, duration, tags,
\* failedStepName) decide nothing here and are left out.
updateRun(store, flowRunId, status) ==
    [store EXCEPT ![flowRunId].status =
        IF isFlowRunStateTerminal(@) THEN @ ELSE status]

\* The run record updateRun returns (the run without its steps).
runWithoutStepsOf(store, flowRunId) ==
    [id |-> flowRunId,
     status |-> store[flowRunId].status,
     parentRunId |-> store[flowRunId].parentRunId,
     failParentOnFailure |-> store[flowRunId].failParentOnFailure,
     logsFileId |-> store[flowRunId].logsFileId]

\* flowRunService.pause: the pause metadata is persisted.
pause(store, flowRunId, pauseMetadata) ==
    [store EXCEPT ![flowRunId].pauseMetadata = pauseMetadata]

\* flowRunService.updateLogsAndReturnUploadUrl: the run keeps its logs file,
\* or gets one.
updateLogsAndReturnUploadUrl(store, flowRunId, logsFileId) ==
    [store EXCEPT ![flowRunId].logsFileId =
        IF isNil(logsFileId) THEN "file1" ELSE logsFileId]

\* Mutant of publish: the payload is delivered whatever the waiter's state.
publishToAnyWaiter(registry, requestId, workerHandlerId, payload) ==
    LET key == << requestId, workerHandlerId >> IN
    IF key \in DOMAIN registry
    THEN [registry EXCEPT ![key] =
            [state |-> "RESOLVED", delivered |-> Append(@.delivered, payload)]]
    ELSE registry

\* engineResponseWatcher.publish: the payload reaches the caller waiting on
\* the key; with no caller waiting (resolved, expired, unknown key) nothing
\* happens.
publish(registry, requestId, workerHandlerId, payload) ==
    LET key == << requestId, workerHandlerId >> IN
    IF key \in DOMAIN registry /\ registry[key].state = "WAITING"
    THEN [registry EXCEPT ![key] =
            [state |-> "RESOLVED", delivered |-> Append(@.delivered, payload)]]
    ELSE registry


\* ----------------------------------------------------------------- state

VARIABLES
    runs,       \* the Run Store: run id -> the persisted run
    waiters,    \* the Response Waiter Registry: key -> the caller's slot
    principal,  \* the engine principal the worker's requests carry
    environment,  \* the server's ENVIRONMENT system property
    calls       \* the update-run handlers: slot -> the call's position and locals

vars == << runs, waiters, principal, environment, calls >>

Slots == 1 .. MaxConcurrent

\* The body of an update-run request.
Body(status, httpRequestId, workerHandlerId, length, updateType, meta, error) ==
    [runId |-> ChildRun,
     status |-> status,
     httpRequestId |-> httpRequestId,
     workerHandlerId |-> workerHandlerId,
     executionStateContentLength |-> length,
     progressUpdateType |-> updateType,
     pauseMetadata |-> meta,
     error |-> error]

NoRun ==
    [id |-> NULL, status |-> NULL, parentRunId |-> NULL,
     failParentOnFailure |-> FALSE, logsFileId |-> NULL]

\* A slot with no request in it.
IdleCall ==
    [pc |-> "idle",
     body |-> Body(NULL, NULL, NULL, {}, NULL, EmptyObject, NULL),
     before |-> NULL,
     runWithoutSteps |-> NoRun,
     uploadUrl |-> NULL,
     threw |-> NULL,
     failedAt |-> NULL,
     events |-> << >>]

\* Every status with every presence of the two ids.
StatusReports ==
    { Body(t[1], t[2], t[3], {}, NULL,
           IF t[1] = PAUSED THEN WebhookPause ELSE EmptyObject,
           IF t[1] = INTERNAL_ERROR THEN "boom" ELSE NULL) :
        t \in FlowRunStatus \X (RequestIds \cup {NULL}) \X (HandlerIds \cup {NULL}) }

\* An internal error with no error value, a failure with one.
ErrorReports ==
    { Body(INTERNAL_ERROR, NULL, NULL, {}, NULL, EmptyObject, NULL),
      Body(FAILED, NULL, NULL, {}, NULL, EmptyObject, "boom") }

\* Reports that carry an execution state length.
LogReports ==
    { Body(t[1], NULL, NULL, {t[2]}, NULL, EmptyObject, NULL) :
        t \in { RUNNING, FAILED } \X (0 .. MaxContentLength) }

\* Pause reports whose metadata names the handler itself, or is absent.
PauseReports ==
    { Body(PAUSED, NULL, "h1", {}, "TEST_FLOW",
           [type |-> "DELAY", handlerId |-> "h7"], NULL),
      Body(PAUSED, NULL, "h1", {}, NULL, EmptyObject, NULL) }

Reports == StatusReports \cup ErrorReports \cup LogReports \cup PauseReports

\* The reports of handlers racing on one run: a progress report and a pause
\* with no ids, two failures with both.
RaceReports ==
    { Body(t[1], t[2], t[3], {}, NULL,
           IF t[1] = PAUSED THEN WebhookPause ELSE EmptyObject, NULL) :
        t \in { << RUNNING, NULL, NULL >>, << PAUSED, NULL, NULL >>,
                << FAILED, "r1", "h1" >>, << TIMEOUT, "r1", "h1" >> } }

\* The engine principal of a request: the worker's job, its project and
\* platform, and the delivery token, which the principal may lack.
EnginePrincipal(queueToken) ==
    [id |-> "job1", projectId |-> "project1", platformId |-> "platform1",
     queueToken |-> queueToken]

InitRun(parentRunId, failParentOnFailure) ==
    [status |-> QUEUED,
     parentRunId |-> parentRunId,
     failParentOnFailure |-> failParentOnFailure,
     pauseMetadata |-> EmptyObject,
     logsFileId |-> NULL]

\* The parent is suspended; its pause is a webhook pause or not.
InitParent(pauseMetadata) ==
    [status |-> PAUSED,
     parentRunId |-> NULL,
     failParentOnFailure |-> FALSE,
     pauseMetadata |-> pauseMetadata,
     logsFileId |-> NULL]

InitWith(parentRunIds, flags, parentPauses) ==
    /\ \E parentRunId \in parentRunIds,
          failParentOnFailure \in flags,
          parentPause \in parentPauses :
            /\ (isNil(parentRunId) \/ ~failParentOnFailure)
                   => parentPause = WebhookPause
            /\ runs = [id \in { ChildRun, ParentRun } |->
                          IF id = ChildRun
                          THEN InitRun(parentRunId, failParentOnFailure)
                          ELSE InitParent(parentPause)]
    /\ waiters = [key \in WaiterKeys |->
                     [state |-> "WAITING", delivered |-> << >>]]
    /\ principal = EnginePrincipal("token1")
    /\ environment = "PRODUCTION"
    /\ calls = [c \in Slots |-> IdleCall]

\* The run is queued, with or without a parent and with either flag; one
\* caller waits for the run's response.
Init == InitWith({ NULL, ParentRun }, BOOLEAN, { WebhookPause, DelayPause })

\* The run is a sub-run whose failure fails its parent.
InitConc == InitWith({ ParentRun }, { TRUE }, { WebhookPause })

\* ------------------------------------------------------ POST /update-run

Record(call, event) == Append(call.events, event)

\* Mutant of Rejected: the error is noted and the handler goes on with its
\* next step.
RejectedAndGoesOn(call, what) ==
    [call EXCEPT !.threw = what,
                 !.failedAt = call.pc,
                 !.pc = CASE call.pc = "publish" -> "updateRun"
                          [] call.pc = "updateRun" -> "logs"
                          [] call.pc = "logs" -> "pause"
                          [] call.pc = "pause" -> "ack"
                          [] call.pc = "ack" -> "cascade"
                          [] OTHER -> "done"]

\* A rejected await ends the handler: the error goes to the worker.
Rejected(call, what) ==
    [call EXCEPT !.pc = "failed", !.threw = what, !.failedAt = call.pc]

\* The request arrives.
StartCall(c, body) ==
    /\ calls[c].pc = "idle"
    /\ \A key \in WaiterKeys : Len(waiters[key].delivered) < MaxDeliveries
    /\ calls' = [calls EXCEPT ![c] =
                    [IdleCall EXCEPT !.pc = "publish", !.body = body,
                                     !.before = runs[body.runId].status]]
    /\ UNCHANGED << runs, waiters, principal, environment >>

\* Lines 89-96: the synchronous response, when one is owed.
Publish(c) ==
    LET call == calls[c]
        body == call.body
        response == getFlowResponse(body.status)
    IN
    /\ call.pc = "publish"
    /\ IF shouldPublish(body)
       THEN IF response.throws
            THEN /\ calls' = [calls EXCEPT ![c] = Rejected(call, response.message)]
                 /\ UNCHANGED waiters
            ELSE /\ waiters' = publish(waiters, body.httpRequestId,
                                       body.workerHandlerId, response)
                 /\ calls' = [calls EXCEPT ![c] =
                       [call EXCEPT !.pc = "updateRun",
                                    !.events = Record(call,
                                        [kind |-> "publish",
                                         requestId |-> body.httpRequestId,
                                         handlerId |-> body.workerHandlerId,
                                         response |-> response])]]
       ELSE /\ calls' = [calls EXCEPT ![c].pc = "updateRun"]
            /\ UNCHANGED waiters
    /\ UNCHANGED << runs, principal, environment >>

\* Mutant of updateRunRejected: the rejection is caught and the handler goes
\* on.
updateRunRejectionSwallowed(call) ==
    [call EXCEPT !.pc = "logs", !.threw = "updateRun rejected"]

\* Mutant of updateRunRejected: the rejection is caught and the handler goes
\* on with the stored run and the reported status.
updateRunRejectionFallsBack(call) ==
    [call EXCEPT !.pc = "logs",
                 !.runWithoutSteps =
                     [runWithoutStepsOf(runs, call.body.runId)
                        EXCEPT !.status = call.body.status]]

\* What the handler does when flowRunService.updateRun rejects: nothing
\* catches the rejection.
updateRunRejected(call) == Rejected(call, "updateRun rejected")

\* Lines 98-106: the Run Store update.
UpdateRun(c) ==
    LET call == calls[c]
        body == call.body
    IN
    /\ call.pc = "updateRun"
    /\ \/ /\ runs' = updateRun(runs, body.runId, body.status)
          /\ calls' = [calls EXCEPT ![c] =
                [call EXCEPT !.pc = "logs",
                             !.runWithoutSteps = runWithoutStepsOf(runs', body.runId),
                             !.events = Record(call,
                                 [kind |-> "updateRun",
                                  status |-> runs'[body.runId].status])]]
       \/ /\ calls' = [calls EXCEPT ![c] = updateRunRejected(call)]
          /\ UNCHANGED runs
    /\ UNCHANGED << waiters, principal, environment >>


\* Lines 108-121: the log upload target, or else the progress broadcast.
Logs(c) ==
    LET call == calls[c]
        body == call.body
    IN
    /\ call.pc = "logs"
    /\ IF updateLogs(body.executionStateContentLength)
       THEN \/ /\ runs' = updateLogsAndReturnUploadUrl(
                              runs, body.runId, call.runWithoutSteps.logsFileId)
               /\ calls' = [calls EXCEPT ![c] =
                     [call EXCEPT !.pc = "pause",
                                  !.uploadUrl = "uploadUrl1",
                                  !.events = Record(call,
                                      [kind |-> "upload",
                                       flowRunId |-> body.runId,
                                       logsFileId |-> call.runWithoutSteps.logsFileId])]]
            \/ /\ calls' = [calls EXCEPT ![c] =
                               Rejected(call, "updateLogs rejected")]
               /\ UNCHANGED runs
       ELSE /\ calls' = [calls EXCEPT ![c] =
                  [call EXCEPT !.pc = "pause",
                               !.events = Record(call,
                                   [kind |-> "emit",
                                    room |-> principal.projectId,
                                    runId |-> body.runId])]]
            /\ UNCHANGED runs
    /\ UNCHANGED << waiters, principal, environment >>

\* Lines 123-132: the pause metadata of a PAUSED report.
Pause(c) ==
    LET call == calls[c]
        body == call.body
        pauseMetadata == pauseMetadataOf(body, progressUpdateTypeOf(body))
    IN
    /\ call.pc = "pause"
    /\ IF body.status = PAUSED
       THEN \/ /\ runs' = pause(runs, body.runId, pauseMetadata)
               /\ calls' = [calls EXCEPT ![c] =
                     [call EXCEPT !.pc = "ack",
                                  !.events = Record(call,
                                      [kind |-> "pause",
                                       pauseMetadata |-> pauseMetadata])]]
            \/ /\ calls' = [calls EXCEPT ![c] = Rejected(call, "pause rejected")]
               /\ UNCHANGED runs
       ELSE /\ calls' = [calls EXCEPT ![c].pc = "ack"]
            /\ UNCHANGED runs
    /\ UNCHANGED << waiters, principal, environment >>

\* Line 133: the queue update for the persisted status.  The queue takes an
\* update only from the holder of the job's token, and may reject any.
Ack(c) ==
    LET call == calls[c]
        updates == markJobAsCompleted(call.runWithoutSteps.status,
                                      call.runWithoutSteps.id, principal,
                                      call.body.error)
    IN
    /\ call.pc = "ack"
    /\ IF updates = << >>
       THEN calls' = [calls EXCEPT ![c].pc = "cascade"]
       ELSE \/ /\ ~isNil(updates[1].token)
               /\ calls' = [calls EXCEPT ![c] =
                     [call EXCEPT !.pc = "cascade",
                                  !.events = Record(call,
                                      [kind |-> "ack", accepted |-> TRUE,
                                       update |-> updates[1]])]]
            \/ /\ calls' = [calls EXCEPT ![c] =
                     [Rejected(call, "queue update rejected")
                        EXCEPT !.events = Record(call,
                                      [kind |-> "ack", accepted |-> FALSE,
                                       update |-> updates[1]])]]
    /\ UNCHANGED << runs, waiters, principal, environment >>

\* Lines 134-148 and markParentRunAsFailed: the parent cascade, then the
\* response.  The cascade loads the parent, needs the requestId of its webhook
\* pause and posts the callback; each of the three may throw.
Cascade(c) ==
    LET call == calls[c]
        run == call.runWithoutSteps
        cascade == [kind |-> "cascade",
                    parentRunId |-> run.parentRunId,
                    childRunId |-> run.id,
                    projectId |-> principal.projectId,
                    platformId |-> principal.platformId]
    IN
    /\ call.pc = "cascade"
    /\ IF shouldMarkParentAsFailed(run)
       THEN LET requestId == parentRequestId(runs[run.parentRunId]) IN
            \/ /\ assertNotNullOrUndefined(requestId)
               /\ calls' = [calls EXCEPT ![c] =
                     [call EXCEPT !.pc = "done",
                                  !.events = Record(call, cascade) \o
                                      << [kind |-> "callback",
                                          parentRunId |-> run.parentRunId,
                                          requestId |-> requestId,
                                          platformId |-> principal.platformId,
                                          status |-> "error",
                                          link |-> << principal.projectId, run.id >>] >>]]
            \/ /\ assertNotNullOrUndefined(requestId)
               /\ calls' = [calls EXCEPT ![c] =
                     [Rejected(call, "callback rejected")
                        EXCEPT !.events = Record(call, cascade)]]
            \/ /\ ~assertNotNullOrUndefined(requestId)
               /\ calls' = [calls EXCEPT ![c] =
                     [Rejected(call, "Parent run has no request id")
                        EXCEPT !.events = Record(call, cascade)]]
            \/ /\ calls' = [calls EXCEPT ![c] =
                     [Rejected(call, "getOneOrThrow rejected")
                        EXCEPT !.events = Record(call, cascade)]]
       ELSE calls' = [calls EXCEPT ![c].pc = "done"]
    /\ UNCHANGED << runs, waiters, principal, environment >>

\* The reply ({uploadUrl} or the error) has gone to the worker.
Return(c) ==
    /\ calls[c].pc \in { "done", "failed" }
    /\ calls' = [calls EXCEPT ![c] = IdleCall]
    /\ UNCHANGED << runs, waiters, principal, environment >>

\* ---------------------------------------------------- POST /update-job

\* The bodies of update-job requests: the message is optional.
JobUpdates ==
    { [queueName |-> "ONE_TIME", status |-> t[1], message |-> t[2]] :
        t \in { JOB_COMPLETED, JOB_FAILED } \X { NULL, "job message" } }

\* The queue update of update-job: the job is the principal's id, the
\* message is message ?? 'NO_MESSAGE_AVAILABLE'.
jobUpdate(enginePrincipal, body) ==
    [jobId |-> enginePrincipal.id,
     queueName |-> body.queueName,
     status |-> body.status,
     token |-> enginePrincipal.queueToken,
     message |-> IF isNil(body.message)
                 THEN << "NO_MESSAGE_AVAILABLE" >>
                 ELSE << body.message >>]

\* The request arrives.
StartJob(c, body) ==
    /\ calls[c].pc = "idle"
    /\ calls' = [calls EXCEPT ![c] =
                    [IdleCall EXCEPT !.pc = "updateJob", !.body = body]]
    /\ UNCHANGED << runs, waiters, principal, environment >>

\* Lines 59-68: nothing in the TESTING environment; else the token is
\* asserted and the queue update sent, which the queue may reject.
UpdateJob(c) ==
    LET call == calls[c]
        update == jobUpdate(principal, call.body)
    IN
    /\ call.pc = "updateJob"
    /\ IF environment = "TESTING"
       THEN calls' = [calls EXCEPT ![c].pc = "done"]
       ELSE \/ /\ ~assertNotNullOrUndefined(principal.queueToken)
               /\ calls' = [calls EXCEPT ![c] = Rejected(call, "queueToken")]
            \/ /\ assertNotNullOrUndefined(principal.queueToken)
               /\ calls' = [calls EXCEPT ![c] =
                     [call EXCEPT !.pc = "done",
                                  !.events = Record(call,
                                      [kind |-> "ack", accepted |-> TRUE,
                                       update |-> update])]]
            \/ /\ assertNotNullOrUndefined(principal.queueToken)
               /\ calls' = [calls EXCEPT ![c] =
                     [Rejected(call, "queue update rejected")
                        EXCEPT !.events = Record(call,
                                      [kind |-> "ack", accepted |-> FALSE,
                                       update |-> update])]]
    /\ UNCHANGED << runs, waiters, principal, environment >>

\* ---------------------------------------------- POST /update-flow-response

\* The response a flow sends by itself.
FlowResponses == { Response(OK, "flow response") }

UpdateFlowResponse(httpRequestId, workerHandlerId, runResponse) ==
    /\ \A key \in WaiterKeys : Len(waiters[key].delivered) < MaxDeliveries
    /\ waiters' = publish(waiters, httpRequestId, workerHandlerId, runResponse)
    /\ UNCHANGED << runs, principal, environment, calls >>

\* The caller stops waiting (timeout or disconnect): its waiter is removed.
WaiterTimeout(key) ==
    /\ waiters[key].state = "WAITING"
    /\ waiters' = [waiters EXCEPT ![key].state = "EXPIRED"]
    /\ UNCHANGED << runs, principal, environment, calls >>

\* ------------------------------------------------------- specifications

Steps(c) ==
    \/ Publish(c)
    \/ UpdateRun(c)
    \/ Logs(c)
    \/ Pause(c)
    \/ Ack(c)
    \/ Cascade(c)
    \/ Return(c)

Registry ==
    \/ \E key \in WaiterKeys, runResponse \in FlowResponses :
          UpdateFlowResponse(key[1], key[2], runResponse)
    \/ \E key \in WaiterKeys : WaiterTimeout(key)

\* One update-run request in flight at a time, with every report; the
\* update-flow-response requests and the waiter's expiry come at any await.
Next ==
    \/ \E body \in Reports : StartCall(1, body)
    \/ Steps(1)
    \/ Registry

Spec == Init /\ [][Next]_vars

\* Update-run requests in every slot, racing on the run.
NextConc ==
    \/ \E c \in Slots, body \in RaceReports : StartCall(c, body)
    \/ \E c \in Slots : Steps(c)
    \/ Registry

SpecConc == InitConc /\ [][NextConc]_vars

\* The reports of every status, with no ids.
TokenReports ==
    { body \in StatusReports :
        isNil(body.httpRequestId) /\ isNil(body.workerHandlerId) }

\* The principal has a delivery token or none; the server runs in the
\* TESTING environment or in another.
InitToken ==
    /\ runs = [id \in { ChildRun, ParentRun } |->
                  IF id = ChildRun
                  THEN InitRun(NULL, FALSE)
                  ELSE InitParent(WebhookPause)]
    /\ waiters = [key \in WaiterKeys |->
                     [state |-> "WAITING", delivered |-> << >>]]
    /\ \E queueToken \in { "token1", NULL } :
          principal = EnginePrincipal(queueToken)
    /\ environment \in { "PRODUCTION", "TESTING" }
    /\ calls = [c \in Slots |-> IdleCall]

\* The update-job and update-run requests of one worker, one at a time.
NextToken ==
    \/ \E body \in JobUpdates : StartJob(1, body)
    \/ UpdateJob(1)
    \/ \E body \in TokenReports : StartCall(1, body)
    \/ Steps(1)

SpecToken == InitToken /\ [][NextToken]_vars


\* ------------------------------------------------------------ properties

\* The events of one kind a call has recorded, in order.
EventsOf(call, kind) == SelectSeq(call.events, LAMBDA e : e.kind = kind)

StepOrder ==
    [idle |-> 0, publish |-> 1, updateRun |-> 2, logs |-> 3, pause |-> 4,
     ack |-> 5, cascade |-> 6, done |-> 7]

\* The call has run the step: it is past it, or it threw in it.
Executed(call, step) ==
    IF call.pc = "failed"
    THEN StepOrder[call.failedAt] >= StepOrder[step]
    ELSE StepOrder[call.pc] > StepOrder[step]

\* Every event of kind `first` comes before every event of kind `second`.
Precedes(call, first, second) ==
    \A i, j \in 1 .. Len(call.events) :
        (call.events[i].kind = first /\ call.events[j].kind = second) => i < j

Contains(message, part) ==
    \E i \in 1 .. Len(message) :
        /\ i + Len(part) - 1 <= Len(message)
        /\ SubSeq(message, i, i + Len(part) - 1) = part

HasBothIds(body) == ~isNil(body.httpRequestId) /\ ~isNil(body.workerHandlerId)

\* C1: a report with a failure status (FAILED, TIMEOUT, INTERNAL_ERROR,
\* QUOTA_EXCEEDED, MEMORY_LIMIT_EXCEEDED) and both ids makes exactly one
\* publish under (httpRequestId, workerHandlerId); the publish is the call's
\* first effect, so it comes before the call's Run Store update; its HTTP
\* status is 500 for INTERNAL_ERROR, FAILED and MEMORY_LIMIT_EXCEEDED, 504 for
\* TIMEOUT and 204 for QUOTA_EXCEEDED.  Before the publish step nothing of the
\* call has happened.
C1_PublishOnceBeforeUpdate ==
    \A c \in Slots :
        LET call == calls[c]
            body == call.body
            published == EventsOf(call, "publish")
        IN
        (body.status \in FailureStatuses /\ HasBothIds(body)) =>
            IF Executed(call, "publish")
            THEN /\ Len(published) = 1
                 /\ call.events[1].kind = "publish"
                 /\ Precedes(call, "publish", "updateRun")
                 /\ published[1].requestId = body.httpRequestId
                 /\ published[1].handlerId = body.workerHandlerId
                 /\ published[1].response.status =
                        CASE body.status = TIMEOUT -> 504
                          [] body.status = QUOTA_EXCEEDED -> 204
                          [] OTHER -> 500
            ELSE call.events = << >>

\* C1 witness: a TIMEOUT report with both ids has published 504 and then
\* applied its Run Store update.
C1_Witness ==
    \E c \in Slots :
        /\ calls[c].body.status = TIMEOUT
        /\ HasBothIds(calls[c].body)
        /\ Len(calls[c].events) >= 2
        /\ calls[c].events[1].kind = "publish"
        /\ calls[c].events[1].response.status = 504
        /\ calls[c].events[2].kind = "updateRun"

\* C2: the queue update of a call follows the status the Run Store update
\* returned: once the call has run the acknowledgment step it has sent exactly
\* one update, COMPLETED, for SUCCEEDED, FAILED, TIMEOUT, PAUSED,
\* QUOTA_EXCEEDED and MEMORY_LIMIT_EXCEEDED; exactly one, FAILED, with a
\* message holding the quoted reported error, for INTERNAL_ERROR; and none for
\* QUEUED and RUNNING.  Before that step it has sent none.
C2_AckFollowsPersistedStatus ==
    \A c \in Slots :
        LET call == calls[c]
            status == call.runWithoutSteps.status
            acks == EventsOf(call, "ack")
        IN
        IF Executed(call, "ack")
        THEN /\ status \in { SUCCEEDED, FAILED, TIMEOUT, PAUSED, QUOTA_EXCEEDED,
                            MEMORY_LIMIT_EXCEEDED } =>
                    /\ Len(acks) = 1
                    /\ acks[1].update.status = "COMPLETED"
                    /\ acks[1].update.jobId = call.body.runId
             /\ status = INTERNAL_ERROR =>
                    /\ Len(acks) = 1
                    /\ acks[1].update.status = "FAILED"
                    /\ acks[1].update.jobId = call.body.runId
                    /\ ~isNil(call.body.error) =>
                          Contains(acks[1].update.message,
                                   << "\"", call.body.error, "\"" >>)
             /\ status \in { QUEUED, RUNNING } => acks = << >>
        ELSE acks = << >>

\* C2 witness: a FAILED report with error "boom" on a run persisted as
\* INTERNAL_ERROR is acknowledged FAILED, with "boom" in the message.
C2_Witness ==
    \E c \in Slots :
        /\ calls[c].body.status = FAILED
        /\ calls[c].body.error = "boom"
        /\ calls[c].runWithoutSteps.status = INTERNAL_ERROR
        /\ EventsOf(calls[c], "ack") # << >>
        /\ EventsOf(calls[c], "ack")[1].update.status = "FAILED"
        /\ Contains(EventsOf(calls[c], "ack")[1].update.message, << "boom" >>)

\* C3: the caller waiting on a key is delivered at most one payload, over
\* every sequence of update-run reports with update-flow-response calls and
\* the waiter's expiry interleaved at every await: a publish to a
\* resolved or expired waiter delivers nothing, an expired waiter has been
\* delivered nothing, and no call that published ended in an error of its
\* publish step.
C3_AtMostOneDelivery ==
    /\ \A key \in WaiterKeys :
          /\ Len(waiters[key].delivered) <= 1
          /\ waiters[key].state \in { "WAITING", "EXPIRED" } =>
                waiters[key].delivered = << >>
    /\ \A c \in Slots :
          EventsOf(calls[c], "publish") # << >> =>
              ~(calls[c].pc = "failed" /\ calls[c].failedAt = "publish")

\* C3 witness: a call has published to a key whose waiter was already
\* resolved by another response; the waiter still holds that one response.
C3_Witness ==
    \E c \in Slots :
        /\ EventsOf(calls[c], "publish") # << >>
        /\ LET e == EventsOf(calls[c], "publish")[1]
               key == << e.requestId, e.handlerId >>
           IN /\ waiters[key].state = "RESOLVED"
              /\ Len(waiters[key].delivered) = 1
              /\ waiters[key].delivered[1] # e.response

\* C4: once the persisted status of a run is terminal (not QUEUED, RUNNING or
\* PAUSED), no step changes it.
C4_TerminalIsFinal ==
    [][\A id \in DOMAIN runs :
          isFlowRunStateTerminal(runs[id].status) =>
              runs'[id].status = runs[id].status]_vars

\* C4 witness: a report with another status has gone through the Run Store
\* update of a run that was terminal, and the run has kept its status.
C4_Witness ==
    \E c \in Slots :
        /\ isFlowRunStateTerminal(calls[c].before)
        /\ calls[c].body.status # calls[c].before
        /\ EventsOf(calls[c], "updateRun") # << >>
        /\ runs[calls[c].body.runId].status = calls[c].before

\* C5: a report that arrives for a run that is already terminal changes no
\* status and makes no publish, whatever ids it carries.
C5_LateReportIsNoOp ==
    \A c \in Slots :
        (calls[c].pc # "idle" /\ isFlowRunStateTerminal(calls[c].before)) =>
            /\ EventsOf(calls[c], "publish") = << >>
            /\ runs[calls[c].body.runId].status = calls[c].before

\* Call d writes the Run Store (status or pause metadata) in this step.
StoreWrite(d) ==
    /\ Len(calls'[d].events) = Len(calls[d].events) + 1
    /\ calls'[d].events[Len(calls'[d].events)].kind \in { "updateRun", "pause" }

\* C6: between the status write and the pause-metadata write of one PAUSED
\* report, no other report for the same run writes the Run Store.
C6_WritesNotInterleaved ==
    [][\A c, d \in Slots :
          ( /\ c # d
            /\ calls[c].body.status = PAUSED
            /\ calls[c].pc \in { "logs", "pause" }
            /\ calls[d].body.runId = calls[c].body.runId ) =>
              ~StoreWrite(d)]_vars

\* C7: a call whose Run Store update failed has ended in an error that goes
\* to the worker, with no uploadUrl and with no effect other than its
\* publish: no log upload, broadcast, pause write, queue update or cascade.
\* The response it published is still with the waiter's caller.
C7_UpdateFailureAborts ==
    \A c \in Slots :
        LET call == calls[c] IN
        ( /\ call.pc \notin { "idle", "publish", "updateRun" }
          /\ ~(call.pc = "failed" /\ call.failedAt = "publish")
          /\ EventsOf(call, "updateRun") = << >> ) =>
            /\ call.pc = "failed"
            /\ ~isNil(call.threw)
            /\ isNil(call.uploadUrl)
            /\ \A i \in 1 .. Len(call.events) :
                  /\ call.events[i].kind = "publish"
                  /\ waiters[<< call.events[i].requestId,
                                call.events[i].handlerId >>].state # "WAITING"

\* C7 witness: a call published its response to the waiting caller, and then
\* its Run Store update failed.
C7_Witness ==
    \E c \in Slots :
        /\ calls[c].pc = "failed"
        /\ calls[c].failedAt = "updateRun"
        /\ Len(calls[c].events) = 1
        /\ waiters[<< "r1", "h1" >>].delivered = << calls[c].events[1].response >>

\* C8: no call on a run whose failParentOnFailure is false makes a cascade
\* call or sends a callback, whatever its status and parent.
C8_NoCascadeWithoutFlag ==
    \A c \in Slots :
        (calls[c].pc # "idle" /\ ~runs[calls[c].body.runId].failParentOnFailure) =>
            /\ EventsOf(calls[c], "cascade") = << >>
            /\ EventsOf(calls[c], "callback") = << >>

\* C8 witness: a call on a run with a parent and failParentOnFailure = false
\* has returned after persisting FAILED.
C8_Witness ==
    \E c \in Slots :
        /\ calls[c].pc = "done"
        /\ calls[c].runWithoutSteps.status = FAILED
        /\ ~isNil(calls[c].runWithoutSteps.parentRunId)
        /\ ~calls[c].runWithoutSteps.failParentOnFailure

\* C9: for a run with failParentOnFailure = true and a parent, a call makes
\* no cascade call when the status after the update is SUCCEEDED, RUNNING,
\* PAUSED or QUEUED; when it is FAILED, TIMEOUT, INTERNAL_ERROR,
\* QUOTA_EXCEEDED or MEMORY_LIMIT_EXCEEDED the call, having run its cascade
\* step, has made exactly one, with the persisted run's parentRunId as parent
\* and the run's id as child.  No call makes one before that step.
C9_CascadeByStatus ==
    \A c \in Slots :
        LET call == calls[c]
            run == call.runWithoutSteps
            cascades == EventsOf(call, "cascade")
        IN
        (run.failParentOnFailure /\ ~isNil(run.parentRunId)) =>
            /\ run.status \in { SUCCEEDED, RUNNING, PAUSED, QUEUED } =>
                  cascades = << >>
            /\ (run.status \in FailureStatuses /\ Executed(call, "cascade")) =>
                  /\ Len(cascades) = 1
                  /\ cascades[1].parentRunId = runs[call.body.runId].parentRunId
                  /\ cascades[1].childRunId = call.body.runId
            /\ ~Executed(call, "cascade") => cascades = << >>

\* C9 witness: a call that persisted TIMEOUT for a run with the flag and a
\* parent has made its cascade call and returned.
C9_Witness ==
    \E c \in Slots :
        /\ calls[c].pc = "done"
        /\ calls[c].runWithoutSteps.status = TIMEOUT
        /\ calls[c].runWithoutSteps.failParentOnFailure
        /\ Len(EventsOf(calls[c], "cascade")) = 1
        /\ EventsOf(calls[c], "cascade")[1].parentRunId = ParentRun

\* C10: a report with status RUNNING, SUCCEEDED or PAUSED makes no publish,
\* with or without the two ids, and its publish step raises no error.
C10_NoPublishForNonSupported ==
    \A c \in Slots :
        calls[c].body.status \in { RUNNING, SUCCEEDED, PAUSED } =>
            /\ EventsOf(calls[c], "publish") = << >>
            /\ ~(calls[c].pc = "failed" /\ calls[c].failedAt = "publish")

\* C10 witness: a PAUSED report with both ids has returned, and the caller is
\* still waiting.
C10_Witness ==
    \E c \in Slots :
        /\ calls[c].pc = "done"
        /\ calls[c].body.status = PAUSED
        /\ HasBothIds(calls[c].body)
        /\ waiters[<< calls[c].body.httpRequestId,
                      calls[c].body.workerHandlerId >>].state = "WAITING"

\* C11: a report with status RUNNING, SUCCEEDED or PAUSED that carries an
\* httpRequestId fails loudly: once its publish step has run, the call has
\* ended there in an error, and it is not processed as a normal update (no
\* Run Store update, no later effect).
C11_NonSupportedWithRequestIdFails ==
    \A c \in Slots :
        LET call == calls[c] IN
        ( /\ call.body.status \in { RUNNING, SUCCEEDED, PAUSED }
          /\ ~isNil(call.body.httpRequestId)
          /\ Executed(call, "publish") ) =>
            /\ call.pc = "failed"
            /\ call.failedAt = "publish"
            /\ call.events = << >>

\* C12: a call whose cascade callback could not be delivered still completes
\* and returns {uploadUrl}: it has not ended in an error; the callback was
\* attempted once, and the child's persisted status and the queue update the
\* call sent are as they were.
C12_CallbackFailureIsSwallowed ==
    \A c \in Slots :
        LET call == calls[c] IN
        call.threw = "callback rejected" =>
            /\ call.pc # "failed"
            /\ Len(EventsOf(call, "cascade")) = 1
            /\ Len(EventsOf(call, "ack")) = 1
            /\ runs[call.body.runId].status = call.runWithoutSteps.status

\* The parent's pause metadata is not a webhook pause with a requestId.
NoWebhookContext(flowRun) ==
    ~( /\ "type" \in DOMAIN flowRun.pauseMetadata
       /\ flowRun.pauseMetadata.type = "WEBHOOK"
       /\ "requestId" \in DOMAIN flowRun.pauseMetadata
       /\ ~isNil(flowRun.pauseMetadata.requestId) )

\* C13: when the cascade of a call finds that the parent run has no
\* webhook-type pause metadata with a requestId, the cascade is aborted: the
\* call sends no callback, the cascade step leaves the Run Store (the parent
\* run with it) exactly as it was, and the child's persisted status and the
\* one queue update the call sent remain in place.
C13_NoWebhookContextAbortsCascade ==
    /\ [](\A c \in Slots :
            LET call == calls[c]
                run == call.runWithoutSteps
            IN
            ( /\ EventsOf(call, "cascade") # << >>
              /\ NoWebhookContext(runs[run.parentRunId]) ) =>
                /\ EventsOf(call, "callback") = << >>
                /\ call.pc = "failed"
                /\ call.failedAt = "cascade"
                /\ runs[call.body.runId].status = run.status
                /\ Len(EventsOf(call, "ack")) = 1
                /\ EventsOf(call, "ack")[1].accepted)
    /\ [][\A c \in Slots :
            (calls[c].pc = "cascade" /\ calls'[c].pc # "cascade") =>
                runs' = runs]_vars

\* C13 witness: a call persisted FAILED for a sub-run whose parent is paused
\* on a delay, sent its queue update and made its cascade call, which was
\* aborted for the missing request id.
C13_Witness ==
    \E c \in Slots :
        /\ calls[c].threw = "Parent run has no request id"
        /\ calls[c].runWithoutSteps.status = FAILED
        /\ runs[ParentRun].pauseMetadata = DelayPause
        /\ runs[ParentRun].status = PAUSED
        /\ Len(EventsOf(calls[c], "ack")) = 1
        /\ Len(EventsOf(calls[c], "cascade")) = 1

\* The pause metadata a PAUSED report's call wrote is the merge of the
\* defaults with the report's pauseMetadata: the fields of both, the report's
\* value for a field of the report, and otherwise progressUpdateType (NONE
\* when the report has none) and handlerId = workerHandlerId; the Run Store
\* holds it.  A report with another status has written none.
PauseWriteIsMerge(call) ==
    LET body == call.body
        written == EventsOf(call, "pause")
    IN
    /\ body.status # PAUSED => written = << >>
    /\ (body.status = PAUSED /\ Executed(call, "pause")
            /\ ~(call.pc = "failed" /\ call.failedAt = "pause")) =>
          /\ Len(written) = 1
          /\ runs[body.runId].pauseMetadata = written[1].pauseMetadata
          /\ DOMAIN written[1].pauseMetadata =
                DOMAIN body.pauseMetadata \cup { "progressUpdateType", "handlerId" }
          /\ \A f \in DOMAIN written[1].pauseMetadata :
                written[1].pauseMetadata[f] =
                    CASE f \in DOMAIN body.pauseMetadata -> body.pauseMetadata[f]
                      [] f = "handlerId" -> body.workerHandlerId
                      [] OTHER -> IF isNil(body.progressUpdateType)
                                  THEN "NONE"
                                  ELSE body.progressUpdateType

\* No step of a call whose reported status is not PAUSED changes the pause
\* metadata of a run.
PauseWriteOnlyWhenPaused ==
    [][(\A c \in Slots : calls[c].body.status # PAUSED) =>
          \A id \in DOMAIN runs :
              runs'[id].pauseMetadata = runs[id].pauseMetadata]_vars

\* C14 as stated: a PAUSED report's call persists the merged pause metadata
\* and its job is then acknowledged COMPLETED; a report with another status
\* writes no pause metadata.
C14_PausedMergeThenCompleted ==
    /\ [](\A c \in Slots :
            /\ PauseWriteIsMerge(calls[c])
            /\ (calls[c].body.status = PAUSED /\ Executed(calls[c], "ack")) =>
                  /\ Len(EventsOf(calls[c], "ack")) = 1
                  /\ EventsOf(calls[c], "ack")[1].update.status = "COMPLETED")
    /\ PauseWriteOnlyWhenPaused

\* C14 amended: a PAUSED report's call persists the merged pause metadata; a
\* report with another status writes none; the queue update that follows the
\* pause write is the one for the status the Run Store update returned:
\* COMPLETED when the run was not terminal before the report (it is PAUSED
\* now) and for every terminal status but INTERNAL_ERROR, FAILED when the run
\* had already ended in INTERNAL_ERROR.
C14_PausedMergeThenAckByPersisted ==
    /\ [](\A c \in Slots :
            /\ PauseWriteIsMerge(calls[c])
            /\ (calls[c].body.status = PAUSED /\ Executed(calls[c], "ack")) =>
                  /\ Len(EventsOf(calls[c], "ack")) = 1
                  /\ Precedes(calls[c], "pause", "ack")
                  /\ ~isFlowRunStateTerminal(calls[c].before) =>
                        calls[c].runWithoutSteps.status = PAUSED
                  /\ EventsOf(calls[c], "ack")[1].update.status =
                        IF calls[c].runWithoutSteps.status = INTERNAL_ERROR
                        THEN "FAILED"
                        ELSE "COMPLETED")
    /\ PauseWriteOnlyWhenPaused

\* C14 witness: a PAUSED report from handler h1 whose pauseMetadata names
\* handler h7 has returned; the run holds the report's handlerId and type and
\* the report's progressUpdateType, and the job was acknowledged COMPLETED.
C14_Witness ==
    \E c \in Slots :
        /\ calls[c].pc = "done"
        /\ calls[c].body.status = PAUSED
        /\ calls[c].body.workerHandlerId = "h1"
        /\ runs[calls[c].body.runId].pauseMetadata =
              [type |-> "DELAY", handlerId |-> "h7",
               progressUpdateType |-> "TEST_FLOW"]
        /\ EventsOf(calls[c], "ack")[1].update.status = "COMPLETED"

\* C15: in every call the queue update and the parent cascade (its call and
\* its callback) come only after that call's Run Store update: a call that
\* has issued either has applied exactly one Run Store update, and that
\* update comes first.
C15_AckAndCascadeAfterUpdate ==
    \A c \in Slots :
        LET call == calls[c] IN
        /\ Precedes(call, "updateRun", "ack")
        /\ Precedes(call, "updateRun", "cascade")
        /\ Precedes(call, "updateRun", "callback")
        /\ ( \E i \in 1 .. Len(call.events) :
                call.events[i].kind \in { "ack", "cascade", "callback" } ) =>
              Len(EventsOf(call, "updateRun")) = 1

\* C15 witness: a call has applied its Run Store update, then sent its queue
\* update, then made its cascade call.
C15_Witness ==
    \E c \in Slots :
        \E i, j, k \in 1 .. Len(calls[c].events) :
            /\ i < j /\ j < k
            /\ calls[c].events[i].kind = "updateRun"
            /\ calls[c].events[j].kind = "ack"
            /\ calls[c].events[k].kind = "cascade"

\* C16: a QUEUED report (the one status that is neither excluded from
\* publishing nor mapped to a response) with both ids fails fast: its call
\* ends in its publish step with the error `Unexpected flow run status`,
\* having published nothing and done nothing else, and while the call is in
\* the handler no step changes the Run Store (the run's status and pause
\* metadata, the parent run); no queue update and no cascade are made.
C16_UnmappedStatusFailsFast ==
    /\ [](\A c \in Slots :
            LET call == calls[c] IN
            (call.body.status = QUEUED /\ HasBothIds(call.body)) =>
                /\ call.pc \in { "publish", "failed" }
                /\ call.events = << >>
                /\ call.pc = "failed" =>
                      /\ call.failedAt = "publish"
                      /\ call.threw = "Unexpected flow run status"
                      /\ isNil(call.uploadUrl)
                /\ runs[call.body.runId].status = call.before)
    /\ [][(\E c \in Slots :
              calls[c].body.status = QUEUED /\ HasBothIds(calls[c].body)) =>
            runs' = runs]_vars

\* C16 witness: a QUEUED report with both ids has failed in its publish step
\* while the caller is still waiting with nothing delivered.
C16_Witness ==
    \E c \in Slots :
        /\ calls[c].body.status = QUEUED
        /\ HasBothIds(calls[c].body)
        /\ calls[c].pc = "failed"
        /\ calls[c].threw = "Unexpected flow run status"
        /\ waiters[<< calls[c].body.httpRequestId,
                      calls[c].body.workerHandlerId >>] =
              [state |-> "WAITING", delivered |-> << >>]

\* C17: a call that has run its log step after its Run Store update has done
\* exactly one of two things.  With an executionStateContentLength that is
\* present and greater than 0 it has made one request for a log-upload
\* target, with the logsFileId the Run Store update returned, and no
\* broadcast, and when it returns it returns the uploadUrl (a rejected
\* request ends the call with neither a broadcast nor an uploadUrl).
\* Otherwise it has broadcast one progress event, for the run, to the room of
\* the principal's project, has requested no upload target and has no
\* uploadUrl.  Before the log step a call has done neither.
C17_UploadXorBroadcast ==
    \A c \in Slots :
        LET call == calls[c]
            length == call.body.executionStateContentLength
            uploads == EventsOf(call, "upload")
            emits == EventsOf(call, "emit")
        IN
        IF EventsOf(call, "updateRun") # << >> /\ Executed(call, "logs")
        THEN IF \E n \in length : n > 0
             THEN /\ emits = << >>
                  /\ IF call.pc = "failed" /\ call.failedAt = "logs"
                     THEN /\ uploads = << >>
                          /\ isNil(call.uploadUrl)
                     ELSE /\ Len(uploads) = 1
                          /\ uploads[1].flowRunId = call.body.runId
                          /\ uploads[1].logsFileId = call.runWithoutSteps.logsFileId
                          /\ ~isNil(call.uploadUrl)
             ELSE /\ Len(emits) = 1
                  /\ emits[1].room = principal.projectId
                  /\ emits[1].runId = call.body.runId
                  /\ uploads = << >>
                  /\ isNil(call.uploadUrl)
                  /\ ~(call.pc = "failed" /\ call.failedAt = "logs")
        ELSE /\ uploads = << >>
             /\ emits = << >>
             /\ isNil(call.uploadUrl)

\* C17 witness: a report with a length of 1 for a run that already has a logs
\* file has requested the upload target for that file and returned the
\* uploadUrl, with no broadcast.
C17_Witness ==
    \E c \in Slots :
        /\ calls[c].pc = "done"
        /\ calls[c].body.executionStateContentLength = { 1 }
        /\ EventsOf(calls[c], "upload") # << >>
        /\ EventsOf(calls[c], "upload")[1].logsFileId = "file1"
        /\ calls[c].uploadUrl = "uploadUrl1"
        /\ EventsOf(calls[c], "emit") = << >>

\* C18: no queue update is ever sent without a delivery token, by update-job
\* or by update-run: every queue update a call has sent carries the
\* principal's token, and that token is there.
C18_NoAckWithoutToken ==
    \A c \in Slots :
        \A i \in 1 .. Len(calls[c].events) :
            calls[c].events[i].kind = "ack" =>
                ~isNil(calls[c].events[i].update.token)

\* The step of update-run that makes an effect of each kind.
StepOf ==
    [publish |-> "publish", updateRun |-> "updateRun", upload |-> "logs",
     emit |-> "logs", pause |-> "pause", ack |-> "ack", cascade |-> "cascade",
     callback |-> "cascade"]

\* C19: the effects of one call come in the fixed order publish, Run Store
\* update, log upload or broadcast, pause write, queue update, cascade (no
\* step twice, the callback last), and a step that fails ends the call: the
\* call has no effect of a later step, the failed Run Store update, log
\* upload or pause write has had no effect itself, and a queue update the
\* queue rejected is the call's last effect.  In particular a call whose log
\* upload or pause write failed has sent no queue update and made no cascade.
C19_FixedOrderAndFailureStops ==
    \A c \in Slots :
        LET call == calls[c]
            step(i) == StepOrder[StepOf[call.events[i].kind]]
        IN
        /\ \A i, j \in 1 .. Len(call.events) :
              i < j => \/ step(i) < step(j)
                       \/ /\ call.events[i].kind = "cascade"
                          /\ call.events[j].kind = "callback"
        /\ ~isNil(call.threw) =>
              /\ call.pc = "failed"
              /\ \A i \in 1 .. Len(call.events) :
                    /\ step(i) <= StepOrder[call.failedAt]
                    /\ step(i) = StepOrder[call.failedAt] =>
                          \/ call.events[i].kind = "cascade"
                          \/ /\ call.events[i].kind = "ack"
                             /\ ~call.events[i].accepted
              /\ call.failedAt \in { "logs", "pause" } =>
                    /\ EventsOf(call, "ack") = << >>
                    /\ EventsOf(call, "cascade") = << >>

\* C19 witness: the log-upload request of a call failed after the call had
\* persisted FAILED for a sub-run that fails its parent; the call has sent no
\* queue update and made no cascade.
C19_Witness ==
    \E c \in Slots :
        /\ calls[c].pc = "failed"
        /\ calls[c].failedAt = "logs"
        /\ calls[c].runWithoutSteps.status = FAILED
        /\ calls[c].runWithoutSteps.failParentOnFailure
        /\ ~isNil(calls[c].runWithoutSteps.parentRunId)
        /\ runs[calls[c].body.runId].status = FAILED
        /\ EventsOf(calls[c], "ack") = << >>
        /\ EventsOf(calls[c], "cascade") = << >>

\* C20: every cascade call of a call is preceded, in that call, by a queue
\* update for the child's job that the queue took: FAILED when the persisted
\* status is INTERNAL_ERROR, COMPLETED otherwise.
C20_CascadeAfterAck ==
    \A c \in Slots :
        LET call == calls[c] IN
        \A k \in 1 .. Len(call.events) :
            call.events[k].kind = "cascade" =>
                \E i \in 1 .. k - 1 :
                    /\ call.events[i].kind = "ack"
                    /\ call.events[i].accepted
                    /\ call.events[i].update.jobId = call.events[k].childRunId
                    /\ call.events[i].update.status =
                          IF call.runWithoutSteps.status = INTERNAL_ERROR
                          THEN "FAILED"
                          ELSE "COMPLETED"

\* C20 witness: a call that persisted INTERNAL_ERROR for a sub-run that fails
\* its parent acknowledged the job as FAILED and then made its cascade call.
C20_Witness ==
    \E c \in Slots :
        /\ calls[c].runWithoutSteps.status = INTERNAL_ERROR
        /\ Len(calls[c].events) >= 2
        /\ calls[c].events[Len(calls[c].events) - 1].kind = "ack"
        /\ calls[c].events[Len(calls[c].events) - 1].update.status = "FAILED"
        /\ calls[c].events[Len(calls[c].events)].kind = "cascade"

=============================================================================
